---- MODULE Spec2Model ----
(***************************************************************************)
(* A model of the dice game (src/game/dice_game.py) and of the policy      *)
(* iteration agent that solves it (src/agent/dice_game_agent.py).          *)
(*                                                                         *)
(* Tuples are sequences; the indices held by an action are 0-based as in   *)
(* the source.  Probabilities are exact fractions [num, den]: a bias is an *)
(* integer weight over the sum of the weights.  The float values of the    *)
(* agent's state-value function are fixed-point integers in units of       *)
(* 1/Scale, every product rounded down.                                    *)
(***************************************************************************)
EXTENDS Integers, Sequences, FiniteSets, TLC

VARIABLES
    dice, sides, values, biases, penalty,   \* DiceGame.__dice ... __penalty
    states, actions,                        \* DiceGame.states, DiceGame.actions
    score, current_dice, game_over,         \* DiceGame.score, __current_dice, __game_over
    returned, rolls, overs, calls,          \* play: last return value, bookkeeping
    query, result,                          \* get_next_states: arguments, return value
    v, policy, i, policy_stable,            \* __policy_iteration locals
    converged, delta, stable, n, pc,        \* evaluation / improvement locals, position
    improvements, policy_before, sweeps     \* improvement calls made, policy at the last
                                            \* call, sweeps of the last evaluation

gameVars == <<dice, sides, values, biases, penalty, states, actions>>
playVars == <<score, current_dice, game_over, returned, rolls, overs, calls>>
queryVars == <<query, result>>
agentVars == <<v, policy, i, policy_stable, converged, delta, stable, n, pc,
               improvements, policy_before, sweeps>>
vars == <<gameVars, playVars, queryVars, agentVars>>

----------------------------------------------------------------------------
(* Bounds of the model. *)

MaxDice == 3
MaxSides == 6
PlayDice == 2
PlaySides == 3
MaxCalls == 4
MaxSweeps == 200
Scale == 10000

(* self.__theta = 0.001 and self.__gamma = 0.94, as fractions. *)
theta_num == 1
theta_den == 1000
gamma_num == 94
gamma_den == 100

----------------------------------------------------------------------------
(* Sequences, sums and sorting. *)

Range(s) == {s[x] : x \in DOMAIN s}

Max(a, b) == IF a >= b THEN a ELSE b

Abs(a) == IF a >= 0 THEN a ELSE 0 - a

RECURSIVE Pow(_, _)
Pow(b, e) == IF e = 0 THEN 1 ELSE b * Pow(b, e - 1)

RECURSIVE Factorial(_)
Factorial(m) == IF m <= 1 THEN 1 ELSE m * Factorial(m - 1)

RECURSIVE SeqSum(_)
SeqSum(s) == IF s = <<>> THEN 0 ELSE Head(s) + SeqSum(Tail(s))

Count(s, x) == Cardinality({p \in DOMAIN s : s[p] = x})

RECURSIVE Insert(_, _)
Insert(x, s) ==
    IF s = <<>> THEN <<x>>
    ELSE IF x <= Head(s) THEN <<x>> \o s
    ELSE <<Head(s)>> \o Insert(x, Tail(s))

RECURSIVE Sort(_)
Sort(s) == IF s = <<>> THEN <<>> ELSE Insert(Head(s), Sort(Tail(s)))

(* Python's list indexing: x[j] for 0 <= j < len(x), x[len(x) + j] for      *)
(* -len(x) <= j < 0, IndexError otherwise.                                  *)
InRange(lst, j) == j >= 0 - Len(lst) /\ j < Len(lst)

PyIndex(lst, j) == IF j >= 0 THEN lst[j + 1] ELSE lst[Len(lst) + j + 1]

(* itertools.combinations_with_replacement(range(lo, hi), r), as 0-based    *)
(* index tuples in lexicographic order.                                     *)
RECURSIVE combinations_with_replacement(_, _, _)
combinations_with_replacement(lo, hi, r) ==
    IF r = 0 THEN << <<>> >>
    ELSE IF lo >= hi THEN <<>>
    ELSE LET first == combinations_with_replacement(lo, hi, r - 1)
             rest == combinations_with_replacement(lo + 1, hi, r)
         IN  [p \in 1..Len(first) |-> <<lo>> \o first[p]] \o rest

(* itertools.combinations(range(lo, hi), r) *)
RECURSIVE combinations(_, _, _)
combinations(lo, hi, r) ==
    IF r = 0 THEN << <<>> >>
    ELSE IF lo >= hi THEN <<>>
    ELSE LET first == combinations(lo + 1, hi, r - 1)
             rest == combinations(lo + 1, hi, r)
         IN  [p \in 1..Len(first) |-> <<lo>> \o first[p]] \o rest

----------------------------------------------------------------------------
(* DiceGame.__init__ *)

default_values(sd) == [x \in 1..sd |-> x]

default_biases(sd) == [x \in 1..sd |-> 1]

make_states(vals, d) ==
    LET idx == combinations_with_replacement(0, Len(vals), d)
    IN  [p \in 1..Len(idx) |-> [q \in 1..d |-> vals[idx[p][q] + 1]]]

RECURSIVE actions_from(_, _)
actions_from(d, r) ==
    IF r > d THEN <<>> ELSE combinations(0, d, r) \o actions_from(d, r + 1)

make_actions(d) == << <<>> >> \o actions_from(d, 1)

(* self.__opposite_sides: the value at index x maps to the value at the     *)
(* mirrored index.                                                          *)
opposite_sides(x) ==
    LET p == CHOOSE q \in DOMAIN values : values[q] = x
    IN  values[Len(values) + 1 - p]

----------------------------------------------------------------------------
(* DiceGame.__final_score, __flip_duplicates *)

RECURSIVE unique(_)
unique(S) ==
    IF S = {} THEN <<>>
    ELSE LET m == CHOOSE x \in S : \A y \in S : x <= y
         IN  <<m>> \o unique(S \ {m})

(* A slip of __final_score: a flipped value is not weighted by its count. *)
final_score_uncounted(dice_values) ==
    LET unique_values == unique(Range(dice_values))
        counts == [p \in DOMAIN unique_values |-> Count(dice_values, unique_values[p])]
        flipped == [p \in DOMAIN unique_values |->
                       IF counts[p] > 1 THEN opposite_sides(unique_values[p])
                       ELSE unique_values[p]]
    IN  SeqSum(flipped)

(* np.unique(dice_values, return_counts=True); the values counted more than *)
(* once are replaced by their opposite side and weighted by their count.    *)
final_score(dice_values) ==
    LET unique_values == unique(Range(dice_values))
        counts == [p \in DOMAIN unique_values |-> Count(dice_values, unique_values[p])]
        flipped == [p \in DOMAIN unique_values |->
                       IF counts[p] > 1 THEN opposite_sides(unique_values[p])
                       ELSE unique_values[p]]
        once == [p \in DOMAIN unique_values |->
                       IF counts[p] = 1 THEN flipped[p] ELSE 0]
        more == [p \in DOMAIN unique_values |->
                       IF counts[p] > 1 THEN flipped[p] * counts[p] ELSE 0]
    IN  SeqSum(once) + SeqSum(more)

(* The dice whose value is shared with another die (the mask) are flipped   *)
(* to the opposite side, then the dice are sorted.                          *)
flip_duplicates(cd) ==
    LET mask == [p \in DOMAIN cd |-> Count(cd, cd[p]) > 1]
    IN  Sort([p \in DOMAIN cd |-> IF mask[p] THEN opposite_sides(cd[p]) ELSE cd[p]])

----------------------------------------------------------------------------
(* DiceGame.roll, DiceGame.reset *)

(* What np.random.choice(values, size, replace=True, p=biases) can draw,    *)
(* up to the order of the draws, which the sort that follows forgets: the   *)
(* index tuples of the faces of the dice not held.                          *)
samples(size) == Range(combinations_with_replacement(0, sides, size))

(* roll(action) on a game with the given score, dice and game-over flag,    *)
(* "sample" being the faces drawn for the dice not held.                    *)
roll(sc, cd, over, action, sample) ==
    LET hold_count == Len(action) IN
    IF over
    THEN [score |-> sc, current_dice |-> cd,
          returned |-> [op |-> "roll", state |-> <<>>, over |-> FALSE, ignored |-> TRUE]]
    ELSE IF hold_count = dice
    THEN LET flipped == flip_duplicates(cd)
         IN  [score |-> sc + SeqSum(flipped), current_dice |-> flipped,
              returned |-> [op |-> "roll", state |-> flipped, over |-> TRUE, ignored |-> FALSE]]
    ELSE LET mask == [p \in 1..dice |-> \A q \in DOMAIN action : action[q] + 1 # p]
             not_held == dice - hold_count
             slot(p) == Cardinality({q \in 1..p : mask[q]})
             rolled == [p \in 1..dice |->
                           IF mask[p] THEN values[sample[slot(p)] + 1] ELSE cd[p]]
             sorted == Sort(rolled)
         IN  [score |-> sc - penalty, current_dice |-> sorted,
              returned |-> [op |-> "roll", state |-> sorted, over |-> FALSE, ignored |-> FALSE]]

(* reset(): the flag, the score and the dice are re-initialised, then the   *)
(* dice are rolled with the default action ().                              *)
reset(sample) ==
    LET zeros == [p \in 1..dice |-> 0]
        rolled == roll(penalty, zeros, FALSE, <<>>, sample)
    IN  [score |-> rolled.score, current_dice |-> rolled.current_dice, game_over |-> FALSE,
         returned |-> [op |-> "reset", state |-> rolled.current_dice,
                       over |-> FALSE, ignored |-> FALSE]]

(* The number of dice that roll(action) draws in the current game. *)
drawn(over, action) == IF over \/ Len(action) = dice THEN 0 ELSE dice - Len(action)

----------------------------------------------------------------------------
(* DiceGame.get_next_states *)

None == "None"

RECURSIVE Product(_)
Product(s) == IF s = <<>> THEN 1 ELSE Head(s) * Product(Tail(s))

(* A slip of the probabilities: the number of orders of a draw is left out. *)
multinomial_pmf_unordered(counts, trials, weights) ==
    [num |-> Product([f \in DOMAIN counts |-> Pow(weights[f], counts[f])]),
     den |-> Pow(SeqSum(weights), trials)]

(* stats.multinomial.pmf(counts, trials, biases) as an exact fraction:      *)
(* trials! / prod(counts[f]!) * prod(biases[f] ^ counts[f]).                *)
multinomial_pmf(counts, trials, weights) ==
    LET total == SeqSum(weights)
        ways == Factorial(trials) \div Product([f \in DOMAIN counts |-> Factorial(counts[f])])
        mass == Product([f \in DOMAIN counts |-> Pow(weights[f], counts[f])])
    IN  [num |-> ways * mass, den |-> Pow(total, trials)]

(* The caller passes a member of states and a member of actions; any other  *)
(* argument raises ValueError before anything is computed.                  *)
get_next_states(state, action) ==
    LET hold_count == Len(action) IN
    IF hold_count = dice
    THEN [possible_states |-> <<None>>, game_over |-> TRUE,
          reward |-> final_score(state), probabilities |-> <<[num |-> 1, den |-> 1]>>]
    ELSE LET not_held == dice - hold_count
             possible_states_index == combinations_with_replacement(0, sides, not_held)
             queries == [p \in DOMAIN possible_states_index |->
                            [f \in 1..sides |-> Count(possible_states_index[p], f - 1)]]
             probabilities == [p \in DOMAIN queries |->
                                  multinomial_pmf(queries[p], not_held, biases)]
             held == [q \in 1..hold_count |-> state[action[q] + 1]]
             inserted == [p \in DOMAIN possible_states_index |->
                             held \o [q \in 1..not_held |->
                                         values[possible_states_index[p][q] + 1]]]
         IN  [possible_states |-> [p \in DOMAIN inserted |-> Sort(inserted[p])],
              game_over |-> FALSE, reward |-> (0 - 1) * penalty,
              probabilities |-> probabilities]

----------------------------------------------------------------------------
(* The configurations DiceGame.__init__ is given: the defaults (values 1 to *)
(* sides, equal biases), and three games with values, biases and penalty of *)
(* their own.                                                               *)

Config(d, sd, vals, weights, pen) ==
    [dice |-> d, sides |-> sd, values |-> vals, biases |-> weights, penalty |-> pen]

Penalties == {0 - 2, 0, 1, 2}

DefaultConfigs(maxDice, maxSides, penalties) ==
    {Config(d, sd, default_values(sd), default_biases(sd), pen) :
        d \in 0..maxDice, sd \in 1..maxSides, pen \in penalties}

CustomConfigs ==
    { Config(2, 2, <<1, 2>>, <<1, 3>>, 1),
      Config(2, 3, <<0 - 1, 2, 5>>, <<1, 1, 2>>, 2),
      Config(1, 2, <<0 - 3, 1>>, <<1, 1>>, 0) }

(* __init__ up to the call of reset(): the lengths of values and biases     *)
(* equal sides (ValueError otherwise).                                      *)
Construct(c) ==
    /\ Len(c.values) = c.sides
    /\ Len(c.biases) = Len(c.values)
    /\ dice = c.dice
    /\ sides = c.sides
    /\ values = c.values
    /\ biases = c.biases
    /\ penalty = c.penalty
    /\ states = make_states(c.values, c.dice)
    /\ actions = make_actions(c.dice)

(* A game that was constructed and not played: __init__ ends in reset(),    *)
(* which draws one of the given samples.                                    *)
Constructed(drawable) ==
    \E sample \in drawable :
        LET r == reset(sample)
        IN  /\ score = r.score
            /\ current_dice = r.current_dice
            /\ game_over = r.game_over
            /\ returned = r.returned
            /\ rolls = 0
            /\ overs = 0
            /\ calls = 0

NoQuery == query = <<>> /\ result = <<>>

NoAgent ==
    /\ v = <<>>
    /\ policy = <<>>
    /\ i = 0
    /\ policy_stable = FALSE
    /\ converged = FALSE
    /\ delta = 0
    /\ stable = FALSE
    /\ n = 0
    /\ pc = "none"
    /\ improvements = 0
    /\ policy_before = <<>>
    /\ sweeps = 0

----------------------------------------------------------------------------
(* The transition model queried: get_next_states(state, action) for every   *)
(* state and action of the game.  get_next_states reads no field that       *)
(* reset() or roll() write and writes none itself: one outcome of the       *)
(* constructor's roll is kept (every die on the first face), and one query  *)
(* is followed from each game.                                              *)

first_sample == {[p \in 1..drawn(FALSE, <<>>) |-> 0]}

ModelInit ==
    /\ \E c \in DefaultConfigs(MaxDice, MaxSides, {1, 2}) \cup CustomConfigs : Construct(c)
    /\ Constructed(first_sample)
    /\ NoQuery
    /\ NoAgent

GetNextStates ==
    /\ query = <<>>
    /\ \E state \in Range(states), action \in Range(actions) :
        /\ query' = <<state, action>>
        /\ result' = get_next_states(state, action)
    /\ UNCHANGED <<gameVars, playVars, agentVars>>

ModelNext == GetNextStates

ModelSpec == ModelInit /\ [][ModelNext]_vars

----------------------------------------------------------------------------
(* The game played: reset() and roll(action) called in any order.  Since    *)
(* the last reset, rolls counts the roll calls that returned game_over =    *)
(* False and overs those that returned game_over = True; calls counts the   *)
(* calls made after the construction.                                       *)

GameInit ==
    /\ \E c \in DefaultConfigs(PlayDice, PlaySides, Penalties) \cup CustomConfigs : Construct(c)
    /\ Constructed(samples(drawn(FALSE, <<>>)))
    /\ NoQuery
    /\ NoAgent

Reset ==
    /\ calls < MaxCalls
    /\ \E sample \in samples(drawn(FALSE, <<>>)) :
        LET r == reset(sample)
        IN  /\ score' = r.score
            /\ current_dice' = r.current_dice
            /\ game_over' = r.game_over
            /\ returned' = r.returned
    /\ rolls' = 0
    /\ overs' = 0
    /\ calls' = calls + 1
    /\ UNCHANGED <<gameVars, queryVars, agentVars>>

Roll ==
    /\ calls < MaxCalls
    /\ \E action \in Range(actions) :
        \E sample \in samples(drawn(game_over, action)) :
            LET r == roll(score, current_dice, game_over, action, sample)
            IN  /\ score' = r.score
                /\ current_dice' = r.current_dice
                /\ returned' = r.returned
                /\ rolls' = IF r.returned.ignored \/ r.returned.over THEN rolls ELSE rolls + 1
                /\ overs' = IF r.returned.over THEN overs + 1 ELSE overs
    /\ calls' = calls + 1
    /\ UNCHANGED <<game_over, gameVars, queryVars, agentVars>>

GameNext == Reset \/ Roll

GameSpec == GameInit /\ [][GameNext]_vars

----------------------------------------------------------------------------
(* DiceGameAgent: the Bellman equation of __policy_evaluation and           *)
(* __policy_improvement.  A value x stands for the float x / Scale.         *)

(* delta < self.__theta *)
below_theta(d) == d <= (theta_num * Scale - 1) \div theta_den

(* reward + (self.__gamma * value) *)
backup(reward, value) == reward * Scale + (gamma_num * value) \div gamma_den

(* sum of probabilities[p] * xs[p], rounded down: quot and rem carry the    *)
(* sum of the terms before p as quot + rem / den.                           *)
RECURSIVE expectation(_, _, _, _, _)
expectation(probabilities, xs, p, quot, rem) ==
    IF p > Len(probabilities) THEN quot
    ELSE LET den == probabilities[p].den
             num == probabilities[p].num
             carry == rem + num * (xs[p] % den)
         IN  expectation(probabilities, xs, p + 1,
                         quot + num * (xs[p] \div den) + carry \div den, carry % den)

(* The loop over new_states: the expected backup of the next states, or the *)
(* backup of the state itself when the game is over.                        *)
bellman(state, action, value) ==
    LET next == get_next_states(state, action)
    IN  IF next.game_over
        THEN backup(next.reward, value[state])
        ELSE expectation(next.probabilities,
                         [p \in DOMAIN next.possible_states |->
                             backup(next.reward, value[next.possible_states[p]])],
                         1, 0, 0)

(* A slip of the evaluation: v[state] is replaced by every new value. *)
improves_always(new_v, current) == TRUE

(* if new_v > v[state], in __policy_evaluation *)
improves(new_v, current) == new_v > current

(* if value > v[state], in __policy_improvement *)
maximises(value, current) == value > current

(* A slip of the improvement: the old action is compared with the           *)
(* candidate, not with the action the policy holds after the pass.          *)
changed_from_candidate(old_action, new_action, assigned) == old_action # new_action

(* if old_action != new_policy[state] *)
changed(old_action, new_action, assigned) == old_action # assigned

----------------------------------------------------------------------------
(* DiceGameAgent.__init__: __policy_iteration on a constructed game.        *)
(* pc is the loop the agent is in, n the position of the loop over          *)
(* self.game.states.                                                        *)

AgentConfigs ==
    {c \in DefaultConfigs(MaxDice, MaxSides, {1}) : c.dice >= 1}
        \cup DefaultConfigs(2, 2, {0 - 2, 0}) \cup CustomConfigs

Init ==
    /\ \E c \in AgentConfigs : Construct(c)
    /\ Constructed(first_sample)
    /\ NoQuery
    /\ i = Len(actions) - 1
    /\ v = [state \in Range(states) |-> 0]
    /\ policy = [state \in Range(states) |-> actions[i + 1]]
    /\ policy_stable = FALSE
    /\ converged = FALSE
    /\ delta = 0
    /\ stable = TRUE
    /\ n = 1
    /\ pc = "evaluation"
    /\ improvements = 0
    /\ policy_before = policy
    /\ sweeps = 1

(* One pass of the loop over the states in __policy_evaluation. *)
EvaluateState ==
    /\ pc = "evaluation"
    /\ n <= Len(states)
    /\ LET state == states[n]
           old_v == v[state]
           new_v == bellman(state, policy[state], v)
           updated == IF improves(new_v, v[state]) THEN new_v ELSE v[state]
           new_delta == Max(delta, Abs(old_v - updated))
       IN  /\ v' = [v EXCEPT ![state] = updated]
           /\ delta' = new_delta
           /\ converged' = (converged \/ below_theta(new_delta))
    /\ n' = n + 1
    /\ UNCHANGED <<policy, i, policy_stable, stable, pc, improvements, policy_before,
                   sweeps>>
    /\ UNCHANGED <<gameVars, playVars, queryVars>>

(* while not converged: delta = 0, and the states are swept again (the      *)
(* model follows MaxSweeps sweeps of an evaluation).                        *)
NextSweep ==
    /\ pc = "evaluation"
    /\ n > Len(states)
    /\ ~converged
    /\ sweeps < MaxSweeps
    /\ sweeps' = sweeps + 1
    /\ delta' = 0
    /\ n' = 1
    /\ UNCHANGED <<v, policy, i, policy_stable, converged, stable, pc,
                   improvements, policy_before>>
    /\ UNCHANGED <<gameVars, playVars, queryVars>>

(* __policy_evaluation returns v, and __policy_improvement is entered:      *)
(* stable = True, action_index -= 1.                                        *)
EvaluationReturn ==
    /\ pc = "evaluation"
    /\ n > Len(states)
    /\ converged
    /\ pc' = "improvement"
    /\ stable' = TRUE
    /\ i' = i - 1
    /\ n' = 1
    /\ improvements' = improvements + 1
    /\ policy_before' = policy
    /\ UNCHANGED <<v, policy, policy_stable, converged, delta, sweeps>>
    /\ UNCHANGED <<gameVars, playVars, queryVars>>

(* One pass of the loop over the states in __policy_improvement;            *)
(* self.game.actions[action_index] raises IndexError out of the list.       *)
ImproveState ==
    /\ pc = "improvement"
    /\ n <= Len(states)
    /\ IF ~InRange(actions, i)
       THEN /\ pc' = "IndexError"
            /\ UNCHANGED <<policy, stable, n>>
       ELSE LET state == states[n]
                old_action == policy[state]
                new_action == PyIndex(actions, i)
                value == bellman(state, new_action, v)
                assigned == IF maximises(value, v[state]) THEN new_action ELSE old_action
            IN  /\ policy' = [policy EXCEPT ![state] = assigned]
                /\ stable' = (stable /\ ~changed(old_action, new_action, assigned))
                /\ n' = n + 1
                /\ pc' = pc
    /\ UNCHANGED <<v, i, policy_stable, converged, delta, improvements, policy_before,
                   sweeps>>
    /\ UNCHANGED <<gameVars, playVars, queryVars>>

(* __policy_improvement returns: the loop of __policy_iteration ends when   *)
(* the policy is stable, and evaluates the new policy otherwise.            *)
ImprovementReturn ==
    /\ pc = "improvement"
    /\ n > Len(states)
    /\ policy_stable' = stable
    /\ IF stable
       THEN /\ pc' = "done"
            /\ UNCHANGED <<converged, delta, n, sweeps>>
       ELSE /\ pc' = "evaluation"
            /\ converged' = FALSE
            /\ delta' = 0
            /\ n' = 1
            /\ sweeps' = 1
    /\ UNCHANGED <<v, policy, i, stable, improvements, policy_before>>
    /\ UNCHANGED <<gameVars, playVars, queryVars>>

Next ==
    \/ EvaluateState
    \/ NextSweep
    \/ EvaluationReturn
    \/ ImproveState
    \/ ImprovementReturn

Spec == Init /\ [][Next]_vars

----------------------------------------------------------------------------
(* Properties of the transition model (ModelSpec).                          *)

hold_all == [q \in 1..dice |-> q - 1]

(* The number of ordered draws of faces, each draw weighted by the product  *)
(* of its biases, that show face f counts[f] times: the last die of the     *)
(* draw shows one of the faces counted.                                     *)
RECURSIVE ordered_draws(_)
ordered_draws(counts) ==
    IF \A f \in DOMAIN counts : counts[f] = 0 THEN 1
    ELSE SeqSum([f \in DOMAIN counts |->
                    IF counts[f] > 0
                    THEN biases[f] * ordered_draws([counts EXCEPT ![f] = counts[f] - 1])
                    ELSE 0])

(* The score of a state die by die: a die that shares its value with        *)
(* another one scores the value of the opposite face.                       *)
score_by_die(state) ==
    SeqSum([p \in DOMAIN state |->
               IF \E q \in DOMAIN state : q # p /\ state[q] = state[p]
               THEN values[sides + 1 - (CHOOSE x \in 1..sides : values[x] = state[p])]
               ELSE state[p]])

(* C2: for every state and every action that does not hold all dice,       *)
(* get_next_states returns one probability per next state, each the         *)
(* probability that the dice not held show the faces the next state adds to *)
(* the held ones, and the probabilities sum to 1.                           *)
C2_ProbabilitiesSumToOne ==
    (query # <<>> /\ Len(query[2]) # dice) =>
        LET state == query[1]
            action == query[2]
            not_held == dice - Len(action)
            held == [q \in 1..Len(action) |-> state[action[q] + 1]]
            total == Pow(SeqSum(biases), not_held)
            rolled(next) == [f \in 1..sides |-> Count(next, values[f]) - Count(held, values[f])]
        IN  /\ Len(result.probabilities) = Len(result.possible_states)
            /\ \A p \in DOMAIN result.possible_states :
                  LET next == result.possible_states[p]
                  IN  /\ next \in Range(states)
                      /\ \A f \in 1..sides : rolled(next)[f] >= 0
                      /\ SeqSum(rolled(next)) = not_held
                      /\ result.probabilities[p].den = total
                      /\ result.probabilities[p].num = ordered_draws(rolled(next))
            /\ SeqSum([p \in DOMAIN result.probabilities |-> result.probabilities[p].num])
                   = total

(* C2: a query that rerolls two or more dice of a game with biased faces    *)
(* was answered.                                                            *)
C2_Witness ==
    /\ query # <<>>
    /\ dice - Len(query[2]) >= 2
    /\ biases # default_biases(sides)
    /\ Len(result.probabilities) >= 3

(* C3: the action that holds all dice returns the one next state None,      *)
(* game_over = True, probability 1 and the final score of the state as      *)
(* reward, the sum of the dice with every die of a repeated value counted   *)
(* as its opposite face, 15 for (2, 2, 5) with three six-sided dice; every  *)
(* other action returns game_over = False and the reward -penalty.          *)
C3_TerminalAction ==
    query # <<>> =>
        LET state == query[1]
            action == query[2]
        IN  IF action = hold_all
            THEN /\ result.possible_states = <<None>>
                 /\ result.game_over
                 /\ result.probabilities = <<[num |-> 1, den |-> 1]>>
                 /\ result.reward = score_by_die(state)
                 /\ (sides = 6 /\ values = default_values(6) /\ state = <<2, 2, 5>>)
                        => result.reward = 15
            ELSE /\ ~result.game_over
                 /\ result.reward = 0 - penalty

(* C3: the state (2, 2, 5) of three default six-sided dice was scored. *)
C3_Witness ==
    /\ query = << <<2, 2, 5>>, <<0, 1, 2>> >>
    /\ sides = 6
    /\ values = default_values(6)
    /\ result.game_over
    /\ result.reward = 15

----------------------------------------------------------------------------
(* Properties of the game played (GameSpec).                                *)

(* C4 as stated: after every reset, the constructor's included, the score   *)
(* is 0, for every penalty and every game.                                  *)
C4_ScoreZeroAfterReset == returned.op = "reset" => score = 0

(* In a game with at least one die the roll of reset() rerolls, and takes   *)
(* back the penalty the score was set to.                                   *)
ScoreZeroAfterResetWithDice == (returned.op = "reset" /\ dice >= 1) => score = 0

(* The first roll since the last reset that returns game_over = True. *)
FirstOver == returned'.op = "roll" /\ returned'.over /\ overs = 0

(* C9 as stated: when the action that holds all dice is taken in the dice   *)
(* state s after j rolls that returned game_over = False, the score becomes *)
(* the reward get_next_states(s, hold all) reports minus j penalties.       *)
C9_FinalScore ==
    [][FirstOver =>
          score' = get_next_states(current_dice, hold_all).reward - rolls * penalty]_vars

(* In a game with at least one die the score starts at 0, and the first     *)
(* roll that holds all dice leaves the final score less the penalties.      *)
FinalScoreWithDice ==
    [][(FirstOver /\ dice >= 1) =>
          score' = get_next_states(current_dice, hold_all).reward - rolls * penalty]_vars

(* C10 as stated: once a roll has returned game_over = True, a roll before  *)
(* the next reset changes neither the score nor the dice.                   *)
C10_GameOverIsFinal ==
    [][(overs >= 1 /\ returned'.op = "roll") =>
          (score' = score /\ current_dice' = current_dice)]_vars

----------------------------------------------------------------------------
(* Properties of the agent (Spec).                                          *)

Standard ==
    /\ dice \in 1..5
    /\ sides \in 2..8
    /\ values = default_values(sides)
    /\ biases = default_biases(sides)
    /\ penalty = 1

(* The place of the agent in its run: the improvements called, then the    *)
(* loop it is in, then the sweep of the evaluation, then the state of the   *)
(* sweep or of the improvement.                                             *)
Rank ==
    LET phase == 2 * improvements + (IF pc = "improvement" THEN 0 ELSE 1)
    IN  (phase * (MaxSweeps + 1) + sweeps) * (Len(states) + 2) + n

(* The agent has a next step: it is in one of its two loops, and a sweep    *)
(* that ended without convergence is within the sweeps the model follows.   *)
Running ==
    /\ pc \in {"evaluation", "improvement"}
    /\ (pc = "evaluation" /\ n > Len(states) /\ ~converged) => sweeps < MaxSweeps

C5_ValueNeverDecreases ==
    [][\A state \in Range(states) :
          /\ v'[state] >= v[state]
          /\ v'[state] # v[state] =>
                /\ pc = "evaluation"
                /\ n <= Len(states)
                /\ state = states[n]
                /\ v'[state] = bellman(state, policy[state], v)]_vars

(* C5: the evaluation has passed a state whose new value is below its      *)
(* value, and has raised the value of another state since.                  *)
C5_Witness ==
    /\ pc = "evaluation"
    /\ n > 1
    /\ n <= Len(states) + 1
    /\ bellman(states[n - 1], policy[states[n - 1]], v) < v[states[n - 1]]
    /\ \E state \in Range(states) : v[state] > 0

(* C6 as stated: the evaluation returns only after a sweep over which the   *)
(* greatest change of a value, delta, is below theta.                       *)
C6_ReturnsBelowTheta == pc # "evaluation" => below_theta(delta)

(* C7 as stated: at every improvement the cursor, moved back by one from    *)
(* the last index and wrapped from the first index to the last, selects a   *)
(* member of the action list, and the lookup never fails.                   *)
C7_CursorCycles ==
    (pc \in {"improvement", "IndexError"}) =>
        /\ pc # "IndexError"
        /\ InRange(actions, i)
        /\ PyIndex(actions, i)
               = actions[((Len(actions) - 1 - improvements) % Len(actions)) + 1]

(* C8: the improvement returns stable = False exactly when the action of    *)
(* some state differs from the one it had when the improvement was called,  *)
(* and a pass replaces the action of its state by the candidate only when   *)
(* the candidate's value exceeds v[state].                                  *)
C8_StableIffUnchanged ==
    /\ []((improvements > 0 /\ pc \in {"evaluation", "done"}) =>
             (policy_stable <=> policy = policy_before))
    /\ [][\A state \in Range(states) :
             policy'[state] # policy[state] =>
                /\ pc = "improvement"
                /\ n <= Len(states)
                /\ state = states[n]
                /\ policy'[state] = PyIndex(actions, i)
                /\ bellman(state, PyIndex(actions, i), v) > v[state]]_vars

(* C8: an improvement returned stable = True although its candidate has a   *)
(* value above v[state] in a state whose action it already was.             *)
C8_Witness ==
    /\ pc = "done"
    /\ policy_stable
    /\ improvements >= 2
    /\ \E state \in Range(states) :
          /\ policy[state] = PyIndex(actions, i)
          /\ bellman(state, PyIndex(actions, i), v) > v[state]

====
